---------------------------- MODULE Spec2Model ----------------------------
(* A model of filterlib's filter design core: filter_design::zpk2sos with   *)
(* cplxpair and zpk2tf, filter_design::analog_lowpass, and the biquad       *)
(* runtime.                                                                 *)
(*                                                                          *)
(* Complex numbers are pairs <<re, im>> on the integer grid, and the        *)
(* arithmetic is exact.  The tolerance 100*epsilon of the code lies below   *)
(* the grid spacing, so it is the grid unit Tol.                            *)
EXTENDS Integers, Sequences, FiniteSets

VARIABLES
    pc,          \* position in the operation being run
    in_zeros,    \* the caller's ZPK record: zeros
    in_poles,    \* the caller's ZPK record: poles
    zpk_zeros,   \* zpk.zeros, the by-value copy zpk2sos pads
    zpk_poles,   \* zpk.poles, likewise
    zpk_gain,    \* zpk.gain
    n_sections,  \* zpk2sos: n_sections
    poles,       \* zpk2sos: working pole list
    zeros,       \* zpk2sos: working zero list
    poles_real,  \* zpk2sos: the local poles_real of the current iteration
    poles_sos,   \* zpk2sos: pole pairs in formation order
    zeros_sos,   \* zpk2sos: zero pairs in formation order
    sos,         \* the returned cascade (biquads with their delay state)
    y,           \* outputs of the cascade, one per sample fed
    x_fed,       \* samples fed to the cascade
    cp_in,       \* cplxpair: argument
    cp_out,      \* cplxpair: result
    filter_order,\* analog_lowpass: argument
    m,           \* analog_lowpass: loop variable
    proto,       \* analog_lowpass: the ZPK record being built
    bq_seq,      \* a biquad driven by process(sequence)
    bq_one,      \* a biquad with the same coefficients driven by process(sample)
    out_seq,     \* outputs of bq_seq
    out_one,     \* outputs of bq_one
    pending,     \* samples given to bq_seq and not yet to bq_one
    n_calls,     \* calls of process(sequence) made on bq_seq
    filter_type, \* the frequency transformation a design applies
    analog,      \* the analog ZPK record handed to bilinear_transform
    fs,          \* bilinear_transform: sampling_frequency
    digital      \* the ZPK record bilinear_transform returns

vars == <<pc, in_zeros, in_poles, zpk_zeros, zpk_poles, zpk_gain, n_sections,
          poles, zeros, poles_real, poles_sos, zeros_sos, sos, y, x_fed,
          cp_in, cp_out, filter_order, m, proto,
          bq_seq, bq_one, out_seq, out_one, pending, n_calls,
          filter_type, analog, fs, digital>>

sosVars == <<in_zeros, in_poles, zpk_zeros, zpk_poles, zpk_gain, n_sections,
             poles, zeros, poles_real, poles_sos, zeros_sos, sos, y, x_fed>>
pairVars == <<cp_in, cp_out>>
designVars == <<filter_type, analog, fs, digital>>
protoVars == <<filter_order, m, proto, designVars>>
bqVars == <<bq_seq, bq_one, out_seq, out_one, pending, n_calls>>

--------------------------------------------------------------------------
(* Bounds *)

MaxPoles == 4
MaxZeros == 4
MaxPairLen == 4
PadCap == 7
MaxSamples == 2
MaxOrder == 14
MaxStream == 3
MaxCalls == 3

(* 100 * epsilon, in grid units *)
Tol == 1

(* Values the inputs are drawn from *)
PoleVals == {<<0, 0>>, <<1, 0>>, <<0, 1>>, <<0, -1>>, <<0, 2>>, <<0, -2>>}
ZeroVals == {<<0, 0>>, <<1, 0>>, <<0, 1>>, <<0, -1>>}
GainVals == {0, 2}
Samples == {0, 1}
CoefVals == {-1, 0, 2}

--------------------------------------------------------------------------
(* Complex arithmetic *)

Zero == <<0, 0>>
Abs(n) == IF n < 0 THEN -n ELSE n
Max(a, b) == IF a >= b THEN a ELSE b
CSub(a, b) == <<a[1] - b[1], a[2] - b[2]>>
CNeg(a) == <<-a[1], -a[2]>>
CMul(a, b) == <<a[1] * b[1] - a[2] * b[2], a[1] * b[2] + a[2] * b[1]>>
CScale(k, a) == <<k * a[1], k * a[2]>>
Conj(a) == <<a[1], -a[2]>>
NormSq(a) == a[1] * a[1] + a[2] * a[2]

(* std::abs(a - b) < std::abs(a - c), compared on the squares *)
Nearer(a, b, c) == NormSq(CSub(a, b)) < NormSq(CSub(a, c))

(* utils::is_real: |imag| < 100 * epsilon *)
IsReal(z) == Abs(z[2]) < Tol

(* count of the real elements of a list: accumulate over is_real(vector) *)
IsRealVec(zv) == [i \in DOMAIN zv |-> IsReal(zv[i])]
Accumulate(bv) == Cardinality({i \in DOMAIN bv : bv[i]})

RemoveAt(s, i) == SubSeq(s, 1, i - 1) \o SubSeq(s, i + 1, Len(s))

RECURSIVE SeqBag(_)
SeqBag(s) ==
    IF s = <<>> THEN [v \in {} |-> 0]
    ELSE LET r == SeqBag(Tail(s))
             h == Head(s)
         IN  [v \in (DOMAIN r) \cup {h} |->
                 (IF v \in DOMAIN r THEN r[v] ELSE 0) + (IF v = h THEN 1 ELSE 0)]

--------------------------------------------------------------------------
(* filter_design::cplxpair *)

(* complex_comparator: by real part, then imaginary part *)
ComplexComparator(a, b) == IF a[1] = b[1] THEN a[2] < b[2] ELSE a[1] < b[1]

RECURSIVE InsertSorted(_, _)
InsertSorted(v, s) ==
    IF s = <<>> THEN <<v>>
    ELSE IF ComplexComparator(v, Head(s)) THEN <<v>> \o s
    ELSE <<Head(s)>> \o InsertSorted(v, Tail(s))

(* std::sort with complex_comparator, a total order: equal values only tie *)
RECURSIVE SortComplex(_)
SortComplex(s) == IF s = <<>> THEN <<>> ELSE InsertSorted(Head(s), SortComplex(Tail(s)))

ToReal(z) == <<z[1], 0>>
RECURSIVE MapReal(_)
MapReal(s) == IF s = <<>> THEN <<>> ELSE <<ToReal(Head(s))>> \o MapReal(Tail(s))

IsPosImag(z) == ~IsReal(z) /\ z[2] > 0
IsNegImag(z) == ~IsReal(z) /\ ~(z[2] > 0)

(* |z_ip[i] - conj(z_in[j])| < tol for some j *)
HasConjugate(a, z_in) ==
    \E j \in DOMAIN z_in : NormSq(CSub(a, Conj(z_in[j]))) < Tol * Tol

(* cplxpair: ok = FALSE stands for the invalid_argument exception *)
Cplxpair(z) ==
    LET zs   == SortComplex(z)
        z_r  == MapReal(SelectSeq(zs, IsReal))
        z_ip == SelectSeq(zs, IsPosImag)
        z_in == SelectSeq(zs, IsNegImag)
        ok   == /\ Len(z_ip) = Len(z_in)
                /\ \A i \in DOMAIN z_ip : HasConjugate(z_ip[i], z_in)
    IN  [ok |-> ok, first |-> z_r, second |-> z_ip]

--------------------------------------------------------------------------
(* utils::pop_nearest_real_complex and the searches of zpk2sos *)

(* the indices of the elements of the wanted kind nearest to `to` *)
NearestOfKind(fro, to, real) ==
    {i \in DOMAIN fro :
        /\ IsReal(fro[i]) = real
        /\ \A j \in DOMAIN fro : IsReal(fro[j]) = real => ~Nearer(to, fro[j], fro[i])}

(* pop_nearest_real_complex(fro, to, real): the element returned and fro    *)
(* without it; which of several equally near elements is taken is left      *)
(* open; found = FALSE when fro holds no element of the wanted kind.        *)
PopNearestRealComplex(fro, to, real) ==
    IF NearestOfKind(fro, to, real) = {}
    THEN {[found |-> FALSE, val |-> Zero, rest |-> fro]}
    ELSE {[found |-> TRUE, val |-> fro[i], rest |-> RemoveAt(fro, i)] :
             i \in NearestOfKind(fro, to, real)}

(* std::min_element by distance to p1: the first of the smallest *)
MinElement(zs, p1) ==
    CHOOSE i \in DOMAIN zs :
        /\ \A j \in DOMAIN zs : ~Nearer(p1, zs[j], zs[i])
        /\ \A k \in 1..(i - 1) : \E j \in DOMAIN zs : Nearer(p1, zs[j], zs[k])

(* a variant of line 564 that takes the next pole whatever its kind *)
FindIfAny(ps) == IF ps = <<>> THEN 0 ELSE 1

(* std::find_if(is_real): the first real element, 0 for end() *)
FindIfReal(ps) ==
    IF \E i \in DOMAIN ps : IsReal(ps[i])
    THEN CHOOSE i \in DOMAIN ps : IsReal(ps[i]) /\ \A k \in 1..(i - 1) : ~IsReal(ps[k])
    ELSE 0

(* |1 - |p|| < |1 - |q||, decided on the squared magnitudes *)
UnitCloser(p, q) ==
    LET a == NormSq(p)
        b == NormSq(q)
    IN  IF a >= 1 /\ b >= 1 THEN a < b
        ELSE IF a = 0 /\ b = 0 THEN FALSE
        ELSE IF a = 0 THEN b > 4
        ELSE a < 4

(* std::sort by UnitCloser: every arrangement with no pair out of order;  *)
(* the order of elements that tie is unspecified                           *)
RECURSIVE SortByUnitCircle(_)
SortByUnitCircle(s) ==
    IF s = <<>> THEN {<<>>}
    ELSE UNION {{<<s[i]>> \o t : t \in SortByUnitCircle(RemoveAt(s, i))} :
                  i \in {i \in DOMAIN s : \A j \in DOMAIN s : ~UnitCloser(s[j], s[i])}}

--------------------------------------------------------------------------
(* One iteration of the pairing loop of zpk2sos, lines 494-576 *)

Section(st, p1, p2, z1, z2, ps, zs) ==
    [st |-> st, p1 |-> p1, p2 |-> p2, z1 |-> z1, z2 |-> z2, poles |-> ps, zeros |-> zs]

(* line 503 *)
FirstOrderCase(p1, preal) == IsReal(p1) /\ Accumulate(preal) = 0

(* line 512 *)
SkipLoneRealCase(p1, preal) == ~IsReal(p1) /\ Accumulate(preal) = 1

(* lines 506-508 *)
FirstOrderSection(p1, rest, zs) ==
    {Section(IF r.found THEN "ok" ELSE "fault", p1, Zero, r.val, Zero, rest, r.rest) :
        r \in PopNearestRealComplex(zs, p1, TRUE)}

(* lines 512-532: z1 and the zero list without it *)
SelectZ1(p1, preal, zs) ==
    IF SkipLoneRealCase(p1, preal)
    THEN PopNearestRealComplex(zs, p1, FALSE)
    ELSE IF zs = <<>>
         THEN {[found |-> FALSE, val |-> Zero, rest |-> zs]}
         ELSE {[found |-> TRUE, val |-> zs[MinElement(zs, p1)],
                rest |-> RemoveAt(zs, MinElement(zs, p1))]}

(* lines 535-573: p2 and z2 *)
CompleteSection(p1, rest, r1) ==
    LET z1 == r1.val
        zs == r1.rest
    IN  IF ~r1.found THEN {Section("fault", p1, Zero, z1, Zero, rest, zs)}
        ELSE IF ~IsReal(p1)
        THEN IF ~IsReal(z1)
             THEN {Section("ok", p1, Conj(p1), z1, Conj(z1), rest, zs)}
             ELSE {Section(IF r.found THEN "ok" ELSE "fault",
                           p1, Conj(p1), z1, r.val, rest, r.rest) :
                      r \in PopNearestRealComplex(zs, p1, TRUE)}
        ELSE IF ~IsReal(z1)
             THEN {Section(IF r.found THEN "ok" ELSE "fault",
                           p1, r.val, z1, Conj(z1), r.rest, zs) :
                      r \in PopNearestRealComplex(rest, z1, TRUE)}
             ELSE IF FindIfReal(rest) = 0
                  THEN {Section("fault", p1, Zero, z1, Zero, rest, zs)}
                  ELSE LET i  == FindIfReal(rest)
                           p2 == rest[i]
                       IN  {Section(IF r.found THEN "ok" ELSE "fault",
                                    p1, p2, z1, r.val, RemoveAt(rest, i), r.rest) :
                               r \in PopNearestRealComplex(zs, p2, TRUE)}

(* the outcomes of one iteration on working lists ps (non-empty) and zs *)
PairSection(ps, zs) ==
    LET p1    == Head(ps)
        rest  == Tail(ps)
        preal == IsRealVec(rest)
    IN  IF FirstOrderCase(p1, preal)
        THEN FirstOrderSection(p1, rest, zs)
        ELSE UNION {CompleteSection(p1, rest, r1) : r1 \in SelectZ1(p1, preal, zs)}

--------------------------------------------------------------------------
(* biquad and filter_design::zpk2tf *)

(* biquad::biquad(b0, b1, b2, a1, a2): the delay state starts at zero *)
Biquad(b0, b1, b2, a1, a2) ==
    [b0 |-> b0, b1 |-> b1, b2 |-> b2, a1 |-> a1, a2 |-> a2,
     xn1 |-> 0, xn2 |-> 0, yn1 |-> 0, yn2 |-> 0]

(* biquad::get_coefficients *)
GetCoefficients(bq) == <<bq.b0, bq.b1, bq.b2, bq.a1, bq.a2>>

(* y[n] = b0 x[n] + b1 x[n-1] + b2 x[n-2] - a1 y[n-1] - a2 y[n-2] *)
Output(bq, x) ==
    bq.b0 * x + bq.b1 * bq.xn1 + bq.b2 * bq.xn2 - bq.a1 * bq.yn1 - bq.a2 * bq.yn2

(* biquad::process(sample): the section after the call *)
Process(bq, x) ==
    [bq EXCEPT !.xn2 = bq.xn1, !.xn1 = x, !.yn2 = bq.yn1, !.yn1 = Output(bq, x)]

(* a variant of process(samples) that does not carry the delay state from  *)
(* one sample of the call to the next                                      *)
ProcessSeqStale(bq, xs) ==
    [bq |-> IF xs = <<>> THEN bq ELSE Process(bq, xs[Len(xs)]),
     out |-> [i \in DOMAIN xs |-> Output(bq, xs[i])]]

(* biquad::process(samples): the section and the outputs after the call *)
RECURSIVE ProcessSeq(_, _)
ProcessSeq(bq, xs) ==
    IF xs = <<>> THEN [bq |-> bq, out |-> <<>>]
    ELSE LET r == ProcessSeq(Process(bq, Head(xs)), Tail(xs))
         IN  [bq |-> r.bq, out |-> <<Output(bq, Head(xs))>> \o r.out]

(* a cascade: each section processes the previous section's output *)
RECURSIVE CascadeProcess(_, _)
CascadeProcess(secs, x) ==
    IF secs = <<>> THEN [secs |-> <<>>, out |-> x]
    ELSE LET r == CascadeProcess(Tail(secs), Output(Head(secs), x))
         IN  [secs |-> <<Process(Head(secs), x)>> \o r.secs, out |-> r.out]

(* zpk2tf: ok = FALSE stands for logic_error("Filter coefficients are complex.") *)
Zpk2tf(zs, ps, gain) ==
    LET a == <<<<1, 0>>, CSub(CNeg(ps[1]), ps[2]), CMul(ps[1], ps[2])>>
        b == <<CScale(gain, <<1, 0>>),
               CScale(gain, CSub(CNeg(zs[1]), zs[2])),
               CMul(CScale(gain, zs[1]), zs[2])>>
    IN  [ok |-> (\A i \in 1..3 : IsReal(a[i])) /\ (\A i \in 1..3 : IsReal(b[i])),
         bq |-> Biquad(b[1][1], b[2][1], b[3][1], a[2][1], a[3][1])]

(* a variant of line 584 that gives the gain to the section formed first *)
SectionGainFirstFormed(s, n, gain) == IF s = 0 THEN gain ELSE 1

(* line 584: the gain given to formation section s (0-based) *)
SectionGain(s, n, gain) == IF s = n - 1 THEN gain ELSE 1

(* lines 581-586: list position k (1-based) holds formation section n - k *)
BuildSos(zsos, psos, n, gain) ==
    [k \in 1..n |-> Zpk2tf(zsos[n - k + 1], psos[n - k + 1], SectionGain(n - k, n, gain))]

--------------------------------------------------------------------------
(* filter_design::zpk2sos, lines 450-589 *)

(* what PadLoop returns for a loop that does not end: no list size *)
Overrun == 0 - 1

(* i < a.size() - b.size(): the difference of two size_t wraps modulo 2^64  *)
(* when b is the longer, to 2^64 - (b - a), which no int i reaches          *)
UnsignedLess(i, a, b) == IF a >= b THEN i < a - b ELSE TRUE

(* for (int i = 0; i < other.size() - grow.size(); i++) grow.push_back(0):  *)
(* the size of the grown list when the loop ends, the sizes re-read every   *)
(* iteration; Overrun when the list passes PadCap with the bound still fed  *)
RECURSIVE PadLoop(_, _, _)
PadLoop(i, grow, other) ==
    IF UnsignedLess(i, other, grow)
    THEN IF grow >= PadCap THEN Overrun ELSE PadLoop(i + 1, grow + 1, other)
    ELSE grow

PadTo(s, n) == s \o [k \in 1..(n - Len(s)) |-> Zero]

(* the non-decreasing sequences over vals of length at most n: cplxpair     *)
(* sorts what it is given, so one order of every multiset is drawn          *)
Multisets(vals, n) ==
    {s \in UNION {[1..k -> vals] : k \in 0..n} :
        \A i \in 1..(Len(s) - 1) : ~ComplexComparator(s[i + 1], s[i])}

(* the parts of the state an operation does not touch *)
IdleSos ==
    /\ in_zeros = <<>> /\ in_poles = <<>>
    /\ zpk_zeros = <<>> /\ zpk_poles = <<>> /\ zpk_gain = 1
    /\ n_sections = 0
    /\ poles = <<>> /\ zeros = <<>> /\ poles_real = <<>>
    /\ poles_sos = <<>> /\ zeros_sos = <<>>
    /\ sos = <<>> /\ y = <<>> /\ x_fed = <<>>

IdlePair == cp_in = <<>> /\ cp_out = [ok |-> TRUE, first |-> <<>>, second |-> <<>>]

IdleDesign ==
    /\ filter_type = "none" /\ fs = 0
    /\ analog = [zeros |-> <<>>, poles |-> <<>>, gain |-> 1]
    /\ digital = [zeros |-> <<>>, poles |-> <<>>, gain |-> 1]

IdleProto ==
    /\ filter_order = 0 /\ m = 0
    /\ proto = [zeros |-> <<>>, poles |-> <<>>, gain |-> 1]
    /\ IdleDesign

IdleBiquad ==
    /\ bq_seq = Biquad(0, 0, 0, 0, 0) /\ bq_one = Biquad(0, 0, 0, 0, 0)
    /\ out_seq = <<>> /\ out_one = <<>> /\ pending = <<>> /\ n_calls = 0

(* a call zpk2sos(zpk) *)
InitSos ==
    /\ pc = "pad"
    /\ in_zeros \in Multisets(ZeroVals, MaxZeros)
    /\ in_poles \in Multisets(PoleVals, MaxPoles)
    /\ zpk_zeros = in_zeros /\ zpk_poles = in_poles
    /\ zpk_gain \in GainVals
    /\ n_sections = 0
    /\ poles = <<>> /\ zeros = <<>> /\ poles_real = <<>>
    /\ poles_sos = <<>> /\ zeros_sos = <<>>
    /\ sos = <<>> /\ y = <<>> /\ x_fed = <<>>
    /\ IdlePair
    /\ IdleProto
    /\ IdleBiquad

(* lines 452-461: the two padding loops and the assertion *)
PadLoops ==
    /\ pc = "pad"
    /\ LET np == PadLoop(0, Len(zpk_poles), Len(zpk_zeros))
           nz == IF np = Overrun THEN Overrun ELSE PadLoop(0, Len(zpk_zeros), np)
       IN  /\ zpk_poles' = PadTo(zpk_poles, IF np = Overrun THEN PadCap ELSE np)
           /\ zpk_zeros' = PadTo(zpk_zeros, IF np = Overrun THEN Len(zpk_zeros)
                                            ELSE IF nz = Overrun THEN PadCap ELSE nz)
           /\ pc' = IF np = Overrun \/ nz = Overrun THEN "overrun"
                    ELSE IF np # nz THEN "assert_fail"
                    ELSE "pad_odd"
    /\ UNCHANGED <<in_zeros, in_poles, zpk_gain, n_sections, poles, zeros, poles_real,
                   poles_sos, zeros_sos, sos, y, x_fed>>
    /\ UNCHANGED <<pairVars, protoVars, bqVars>>

(* a variant of lines 462-468 without the padding of an odd count *)
PadOddSkip ==
    /\ pc = "pad_odd"
    /\ n_sections' = (Len(zpk_zeros) + 1) \div 2
    /\ pc' = "cplxpair"
    /\ UNCHANGED <<in_zeros, in_poles, zpk_zeros, zpk_poles, zpk_gain, poles, zeros,
                   poles_real, poles_sos, zeros_sos, sos, y, x_fed>>
    /\ UNCHANGED <<pairVars, protoVars, bqVars>>

(* lines 462-468 *)
PadOdd ==
    /\ pc = "pad_odd"
    /\ n_sections' = (Len(zpk_zeros) + 1) \div 2
    /\ zpk_poles' = IF Len(zpk_zeros) % 2 = 1 THEN Append(zpk_poles, Zero) ELSE zpk_poles
    /\ zpk_zeros' = IF Len(zpk_zeros) % 2 = 1 THEN Append(zpk_zeros, Zero) ELSE zpk_zeros
    /\ pc' = "cplxpair"
    /\ UNCHANGED <<in_zeros, in_poles, zpk_gain, poles, zeros, poles_real,
                   poles_sos, zeros_sos, sos, y, x_fed>>
    /\ UNCHANGED <<pairVars, protoVars, bqVars>>

(* lines 473-484: both lists through cplxpair *)
PairConjugates ==
    /\ pc = "cplxpair"
    /\ LET poles_r_i == Cplxpair(zpk_poles)
           zeros_r_i == Cplxpair(zpk_zeros)
       IN  IF poles_r_i.ok /\ zeros_r_i.ok
           THEN /\ poles' = poles_r_i.first \o poles_r_i.second
                /\ zeros' = zeros_r_i.first \o zeros_r_i.second
                /\ pc' = "sort"
           ELSE /\ pc' = "invalid_argument"
                /\ UNCHANGED <<poles, zeros>>
    /\ UNCHANGED <<in_zeros, in_poles, zpk_zeros, zpk_poles, zpk_gain, n_sections,
                   poles_real, poles_sos, zeros_sos, sos, y, x_fed>>
    /\ UNCHANGED <<pairVars, protoVars, bqVars>>

(* lines 487-488 *)
SortPoles ==
    /\ pc = "sort"
    /\ poles' \in SortByUnitCircle(poles)
    /\ pc' = "loop"
    /\ UNCHANGED <<in_zeros, in_poles, zpk_zeros, zpk_poles, zpk_gain, n_sections,
                   zeros, poles_real, poles_sos, zeros_sos, sos, y, x_fed>>
    /\ UNCHANGED <<pairVars, protoVars, bqVars>>

(* lines 492-577: one iteration, s = Len(poles_sos) *)
FormSection ==
    /\ pc = "loop"
    /\ Len(poles_sos) < n_sections
    /\ IF poles = <<>>
       THEN /\ pc' = "fault"
            /\ UNCHANGED <<poles, zeros, poles_real, poles_sos, zeros_sos>>
       ELSE \E sec \in PairSection(poles, zeros) :
                /\ poles_real' = IsRealVec(Tail(poles))
                /\ poles' = sec.poles
                /\ zeros' = sec.zeros
                /\ poles_sos' = Append(poles_sos, <<sec.p1, sec.p2>>)
                /\ zeros_sos' = Append(zeros_sos, <<sec.z1, sec.z2>>)
                /\ pc' = IF sec.st = "ok" THEN "loop" ELSE "fault"
    /\ UNCHANGED <<in_zeros, in_poles, zpk_zeros, zpk_poles, zpk_gain, n_sections,
                   sos, y, x_fed>>
    /\ UNCHANGED <<pairVars, protoVars, bqVars>>

(* line 578 *)
LoopExit ==
    /\ pc = "loop"
    /\ Len(poles_sos) >= n_sections
    /\ pc' = IF Len(poles) = 0 /\ Len(zeros) = 0 THEN "emit" ELSE "assert_fail"
    /\ UNCHANGED sosVars
    /\ UNCHANGED <<pairVars, protoVars, bqVars>>

(* lines 580-588 *)
EmitSos ==
    /\ pc = "emit"
    /\ LET built == BuildSos(zeros_sos, poles_sos, n_sections, zpk_gain)
       IN  IF \A k \in DOMAIN built : built[k].ok
           THEN /\ sos' = [k \in DOMAIN built |-> built[k].bq]
                /\ pc' = "done"
           ELSE /\ sos' = sos
                /\ pc' = "logic_error"
    /\ UNCHANGED <<in_zeros, in_poles, zpk_zeros, zpk_poles, zpk_gain, n_sections,
                   poles, zeros, poles_real, poles_sos, zeros_sos, y, x_fed>>
    /\ UNCHANGED <<pairVars, protoVars, bqVars>>

(* one sample through the returned cascade, in list order *)
FeedCascade ==
    /\ pc = "done"
    /\ Len(x_fed) < MaxSamples
    /\ \E x \in Samples :
          LET r == CascadeProcess(sos, x)
          IN  /\ sos' = r.secs
              /\ y' = Append(y, r.out)
              /\ x_fed' = Append(x_fed, x)
    /\ UNCHANGED <<pc, in_zeros, in_poles, zpk_zeros, zpk_poles, zpk_gain, n_sections,
                   poles, zeros, poles_real, poles_sos, zeros_sos>>
    /\ UNCHANGED <<pairVars, protoVars, bqVars>>

NextSos ==
    \/ PadLoops
    \/ PadOdd
    \/ PairConjugates
    \/ SortPoles
    \/ FormSection
    \/ LoopExit
    \/ EmitSos
    \/ FeedCascade

SpecSos == InitSos /\ [][NextSos]_vars

--------------------------------------------------------------------------
(* Properties of zpk2sos, stated for SpecSos *)

CeilHalf(n) == (n + 1) \div 2
MaxInputCount == Max(Len(in_zeros), Len(in_poles))
Stopped == pc \in {"overrun", "assert_fail", "invalid_argument", "fault", "logic_error"}

(* cplxpair accepts both lists of the caller's record *)
InputAccepted == Cplxpair(in_zeros).ok /\ Cplxpair(in_poles).ok

RECURSIVE Flatten(_)
Flatten(ss) == IF ss = <<>> THEN <<>> ELSE Head(ss) \o Flatten(Tail(ss))

(* C1: for every input cplxpair accepts, whatever the two counts, zpk2sos   *)
(* runs to its return, the pairing loop leaves both working lists empty     *)
(* (the assertion of line 578 holds), and the cascade returned has          *)
(* ceil(max(|zeros|, |poles|) / 2) sections.                                *)
C1_AllConsumed ==
    InputAccepted =>
        /\ ~Stopped
        /\ pc \in {"emit", "done"} =>
              /\ poles = <<>> /\ zeros = <<>>
              /\ Len(poles_sos) = CeilHalf(MaxInputCount)
        /\ pc = "done" => Len(sos) = CeilHalf(MaxInputCount)

(* C2 as the specification states it: the overall gain is given to the     *)
(* last section of the returned list only, every other section has gain 1  *)
(* (the gain of a section is its b0, zpk2tf's gain * 1).                    *)
C2_GainOnLast ==
    (pc = "done" /\ Len(sos) >= 1) =>
        /\ sos[Len(sos)].b0 = zpk_gain
        /\ \A k \in 1..(Len(sos) - 1) : sos[k].b0 = 1

(* C2, amended: the overall gain is given to the first section of the      *)
(* returned list only (the section formed last); every other section,      *)
(* the last one included when there are several, has gain 1.                *)
C2_GainOnFirst ==
    (pc = "done" /\ Len(sos) >= 1) =>
        /\ sos[1].b0 = zpk_gain
        /\ \A k \in 2..Len(sos) : sos[k].b0 = 1

C2_Witness == pc = "done" /\ Len(sos) >= 2 /\ zpk_gain # 1 /\ sos[2].b0 = 1

(* C3: when zpk2sos returns, the poles of the sections formed, p1 and p2   *)
(* of each, are as a multiset the padded input poles, the zeros of the     *)
(* sections the padded input zeros, and the padding added entries equal    *)
(* to 0 only.                                                               *)
C3_SameRoots ==
    pc = "done" =>
        /\ SeqBag(Flatten(poles_sos)) = SeqBag(zpk_poles)
        /\ SeqBag(Flatten(zeros_sos)) = SeqBag(zpk_zeros)
        /\ zpk_poles = PadTo(in_poles, Len(zpk_poles))
        /\ zpk_zeros = PadTo(in_zeros, Len(zpk_zeros))

(* C5: the two padding loops end, whatever the two counts, with the        *)
(* shorter list grown by zero-valued entries to the length of the longer   *)
(* and the longer untouched, so that the assertion of line 461 holds.       *)
C5_PaddingExact ==
    /\ pc # "overrun"
    /\ pc = "pad_odd" =>
          /\ Len(zpk_zeros) = MaxInputCount
          /\ Len(zpk_poles) = MaxInputCount
          /\ zpk_poles = PadTo(in_poles, MaxInputCount)
          /\ zpk_zeros = PadTo(in_zeros, MaxInputCount)

(* C6: a record with gain 0 gives a cascade whose output is 0 for every    *)
(* sample fed through it.                                                   *)
C6_ZeroGainSilent ==
    zpk_gain = 0 => \A k \in DOMAIN y : y[k] = 0

(* the list position k holds the section formed as number n - k + 1 *)
FormedAs(k) == Len(poles_sos) - k + 1
SectionIsFormed(k) ==
    LET ps == poles_sos[FormedAs(k)]
        zs == zeros_sos[FormedAs(k)]
        g  == sos[k].b0
    IN  GetCoefficients(sos[k]) = GetCoefficients(Zpk2tf(zs, ps, g).bq)

(* C9: the cascade returned holds the sections in the reverse of their     *)
(* formation order; the p1 of the section formed first, which is last in   *)
(* the list, is an input pole as close to the unit circle as any; and the  *)
(* p1 at list index k is no closer to the unit circle than the p1 at k+1.   *)
C9_WorstLast ==
    (pc = "done" /\ Len(sos) >= 1) =>
        /\ \A k \in DOMAIN sos : SectionIsFormed(k)
        /\ \A k \in 1..(Len(sos) - 1) :
              ~UnitCloser(poles_sos[FormedAs(k)][1], poles_sos[FormedAs(k + 1)][1])
        /\ \A i \in DOMAIN zpk_poles : ~UnitCloser(zpk_poles[i], poles_sos[1][1])

(* C10: in an iteration that does not take the first-order branch, z1 is   *)
(* the nearest complex zero when p1 is complex and exactly one real zero   *)
(* remains, and the nearest remaining zero of any kind otherwise; the      *)
(* count the skip test reads is the count of the remaining real zeros.      *)
C10_ZeroSelection ==
    [][(pc = "loop" /\ pc' = "loop" /\ Len(zeros_sos') = Len(zeros_sos) + 1) =>
        LET p1 == Head(poles)
            z1 == zeros_sos'[Len(zeros_sos')][1]
            real_zeros == Accumulate(IsRealVec(zeros))
            lone == ~IsReal(p1) /\ real_zeros = 1
        IN  ~FirstOrderCase(p1, IsRealVec(Tail(poles))) =>
               /\ lone => /\ ~IsReal(z1)
                          /\ \E i \in NearestOfKind(zeros, p1, FALSE) : zeros[i] = z1
               /\ ~lone => /\ \E i \in DOMAIN zeros : zeros[i] = z1
                           /\ \A j \in DOMAIN zeros : ~Nearer(p1, zeros[j], z1)
               /\ ~IsReal(p1) => Accumulate(poles_real') = real_zeros]_vars

--------------------------------------------------------------------------
(* A call cplxpair(z) on its own *)

SeqsUpTo(vals, n) == UNION {[1..k -> vals] : k \in 0..n}

InitPair ==
    /\ pc = "call"
    /\ cp_in \in SeqsUpTo(PoleVals, MaxPairLen)
    /\ cp_out = [ok |-> TRUE, first |-> <<>>, second |-> <<>>]
    /\ IdleSos
    /\ IdleProto
    /\ IdleBiquad

(* lines 290-344 *)
CallCplxpair ==
    /\ pc = "call"
    /\ cp_out' = Cplxpair(cp_in)
    /\ pc' = IF Cplxpair(cp_in).ok THEN "returned" ELSE "invalid_argument"
    /\ UNCHANGED cp_in
    /\ UNCHANGED <<sosVars, protoVars, bqVars>>

NextPair == CallCplxpair

SpecPair == InitPair /\ [][NextPair]_vars

RECURSIVE MapConj(_)
MapConj(s) == IF s = <<>> THEN <<>> ELSE <<Conj(Head(s))>> \o MapConj(Tail(s))

Count(s, v) == Cardinality({i \in DOMAIN s : s[i] = v})

(* some non-real value of z has fewer conjugates in z than occurrences, so  *)
(* that not every occurrence is matched by an element of its own            *)
Unmatched(z) ==
    \E i \in DOMAIN z : ~IsReal(z[i]) /\ Count(z, Conj(z[i])) # Count(z, z[i])

(* C4: when cplxpair returns, its reals, its positives and the conjugates  *)
(* of its positives are together the input multiset; and cplxpair throws   *)
(* on every input with a non-real value whose conjugate is not matched by  *)
(* a distinct element.                                                      *)
C4_RoundTrip ==
    /\ pc = "returned" =>
          SeqBag(cp_out.first \o cp_out.second \o MapConj(cp_out.second)) = SeqBag(cp_in)
    /\ (pc # "call" /\ Unmatched(cp_in)) => pc = "invalid_argument"

--------------------------------------------------------------------------
(* filter_design::analog_lowpass, lines 20-29.  The pole                    *)
(* -exp(i * PI * m / (2 * filter_order)) is kept as <<m, 2 * filter_order>>, *)
(* the fraction of PI its angle is.                                         *)

(* filter_design::zpk as default-constructed *)
ZpkDefault == [zeros |-> <<>>, poles |-> <<>>, gain |-> 1]

(* a variant of line 24 that starts the loop one index early *)
LoopStartOff(n) == -n

(* line 24: int m = -filter_order + 1 *)
LoopStart(n) == -n + 1

(* line 24: m += 2 *)
LoopStep(k) == k + 2

InitProto ==
    /\ pc = "proto_call"
    /\ filter_order \in 1..MaxOrder
    /\ m = 0
    /\ proto = ZpkDefault
    /\ IdleDesign
    /\ IdlePair
    /\ IdleSos
    /\ IdleBiquad

(* lines 22 and 24: the record and the loop variable *)
ProtoEnter ==
    /\ pc = "proto_call"
    /\ proto' = ZpkDefault
    /\ m' = LoopStart(filter_order)
    /\ pc' = "proto_loop"
    /\ UNCHANGED <<filter_order, designVars>>
    /\ UNCHANGED <<sosVars, pairVars, bqVars>>

(* lines 24-27: one iteration *)
ProtoPush ==
    /\ pc = "proto_loop"
    /\ m < filter_order
    /\ proto' = [proto EXCEPT !.poles = Append(@, <<m, 2 * filter_order>>)]
    /\ m' = LoopStep(m)
    /\ UNCHANGED <<pc, filter_order, designVars>>
    /\ UNCHANGED <<sosVars, pairVars, bqVars>>

(* line 28 *)
ProtoReturn ==
    /\ pc = "proto_loop"
    /\ ~(m < filter_order)
    /\ pc' = "proto_done"
    /\ UNCHANGED protoVars
    /\ UNCHANGED <<sosVars, pairVars, bqVars>>

NextProto == ProtoEnter \/ ProtoPush \/ ProtoReturn

SpecProto == InitProto /\ [][NextProto]_vars

(* C8: analog_lowpass(N) returns N poles, no zeros and gain 1; the pole    *)
(* indices are -N+1, -N+3, ..., N-1 in this order, a set closed under      *)
(* m -> -m, and every |m| < N, the angle PI*m/(2N) strictly inside         *)
(* (-PI/2, PI/2).                                                           *)
C8_Prototype ==
    pc = "proto_done" =>
        /\ Len(proto.poles) = filter_order
        /\ proto.zeros = <<>>
        /\ proto.gain = 1
        /\ \A k \in DOMAIN proto.poles :
              /\ proto.poles[k] = <<-filter_order + 1 + 2 * (k - 1), 2 * filter_order>>
              /\ Abs(proto.poles[k][1]) < filter_order
              /\ 2 * Abs(proto.poles[k][1]) < proto.poles[k][2]
              /\ \E j \in DOMAIN proto.poles : proto.poles[j][1] = -proto.poles[k][1]

C8_Witness ==
    /\ pc = "proto_done" /\ filter_order = 10
    /\ Len(proto.poles) = 10
    /\ proto.poles[1][1] = -9 /\ proto.poles[10][1] = 9

--------------------------------------------------------------------------
(* The biquad runtime: two sections with the same coefficients, one given  *)
(* its samples by process(sequence) in chunks, the other the same samples  *)
(* one by one by process(sample).                                           *)

InitBiquad ==
    /\ pc = "run"
    /\ \E b0 \in CoefVals, b1 \in CoefVals, b2 \in CoefVals,
          a1 \in CoefVals, a2 \in CoefVals :
          /\ bq_seq = Biquad(b0, b1, b2, a1, a2)
          /\ bq_one = Biquad(b0, b1, b2, a1, a2)
    /\ out_seq = <<>> /\ out_one = <<>> /\ pending = <<>> /\ n_calls = 0
    /\ IdlePair
    /\ IdleSos
    /\ IdleProto

(* bq_seq.process(xs) *)
CallProcessSeq ==
    /\ pc = "run"
    /\ n_calls < MaxCalls
    /\ n_calls' = n_calls + 1
    /\ \E xs \in SeqsUpTo(Samples, MaxStream - Len(out_seq)) :
          /\ bq_seq' = ProcessSeq(bq_seq, xs).bq
          /\ out_seq' = out_seq \o ProcessSeq(bq_seq, xs).out
          /\ pending' = pending \o xs
    /\ UNCHANGED <<pc, bq_one, out_one>>
    /\ UNCHANGED <<sosVars, pairVars, protoVars>>

(* bq_one.process(x) on the next sample *)
CallProcess ==
    /\ pc = "run"
    /\ pending # <<>>
    /\ bq_one' = Process(bq_one, Head(pending))
    /\ out_one' = Append(out_one, Output(bq_one, Head(pending)))
    /\ pending' = Tail(pending)
    /\ UNCHANGED <<pc, bq_seq, out_seq, n_calls>>
    /\ UNCHANGED <<sosVars, pairVars, protoVars>>

(* get_coefficients() on either section: a read *)
CallGetCoefficients ==
    /\ pc = "run"
    /\ GetCoefficients(bq_seq) = GetCoefficients(bq_one)
    /\ UNCHANGED vars

NextBiquad == CallProcessSeq \/ CallProcess \/ CallGetCoefficients

SpecBiquad == InitBiquad /\ [][NextBiquad]_vars

--------------------------------------------------------------------------
(* The pairing loop of zpk2sos, stated for SpecSos *)

RealCount(zv) == Accumulate(IsRealVec(zv))
ComplexCount(zv) == Len(zv) - RealCount(zv)
SectionsLeft == n_sections - Len(poles_sos)

(* C13: whenever the pairing loop tests its condition, for the working pole *)
(* list and the working zero list alike, reals + 2 * complex                *)
(* representatives = 2 * (sections still to form), so the real count of     *)
(* either list is even; and at the start of an iteration the first-order    *)
(* case (p1 real, no other real pole) does not hold.                        *)
C13_LoopInvariant ==
    pc = "loop" =>
        /\ RealCount(poles) + 2 * ComplexCount(poles) = 2 * SectionsLeft
        /\ RealCount(zeros) + 2 * ComplexCount(zeros) = 2 * SectionsLeft
        /\ RealCount(poles) % 2 = 0
        /\ RealCount(zeros) % 2 = 0
        /\ SectionsLeft > 0 =>
              /\ poles # <<>>
              /\ ~FirstOrderCase(Head(poles), IsRealVec(Tail(poles)))

C13_Witness ==
    /\ pc = "loop"
    /\ Len(in_poles) = 3 /\ Len(in_zeros) = 3
    /\ n_sections = 2 /\ Len(poles_sos) = 1
    /\ ~IsReal(poles_sos[1][1])
    /\ Len(poles) = 2 /\ IsReal(Head(poles)) /\ RealCount(poles) = 2

(* two reals, or a complex value and its conjugate *)
PairedRoots(pr) ==
    \/ IsReal(pr[1]) /\ IsReal(pr[2])
    \/ ~IsReal(pr[1]) /\ pr[2] = Conj(pr[1])

(* C14: every section zpk2sos forms has a pole pair and a zero pair that    *)
(* are each two reals or a complex value and its conjugate; no removal in   *)
(* the loop fails to find an element of the kind it needs (the asserts of   *)
(* lines 517, 548, 558, 567, 571 and the search of line 564); zpk2tf does   *)
(* not raise its error for any section, and every coefficient it keeps the  *)
(* real part of is real.                                                    *)
C14_SectionsReal ==
    /\ pc \notin {"fault", "logic_error"}
    /\ \A k \in DOMAIN poles_sos : PairedRoots(poles_sos[k])
    /\ \A k \in DOMAIN zeros_sos : PairedRoots(zeros_sos[k])
    /\ pc \in {"emit", "done"} =>
          \A k \in 1..n_sections :
              Zpk2tf(zeros_sos[k], poles_sos[k], SectionGain(k - 1, n_sections, zpk_gain)).ok

C14_Witness ==
    /\ pc = "done" /\ n_sections = 2 /\ Len(sos) = 2
    /\ \E k \in DOMAIN poles_sos :
          /\ ~IsReal(poles_sos[k][1])
          /\ IsReal(zeros_sos[k][1]) /\ IsReal(zeros_sos[k][2])
    /\ \E j \in DOMAIN poles_sos :
          /\ IsReal(poles_sos[j][1]) /\ IsReal(poles_sos[j][2])
          /\ poles_sos[j][1] # poles_sos[j][2]

--------------------------------------------------------------------------
(* filter_design::bilinear_transform, lines 247-282.  The analog values     *)
(* are grid numbers with real part at most 0, so that 2 * fs - x is never   *)
(* 0.  A mapped value (2 * fs + x) / (2 * fs - x) is kept as the quotient   *)
(* it is, and the returned gain as the fraction num / den.                  *)

MaxBtLen == 2

FsVals == {1, 2}
BtVals == {<<0, 0>>, <<-1, 0>>, <<0, 1>>, <<0, -1>>, <<-1, 1>>, <<-1, -1>>}
BtGains == {1, 2}

MinusOne == <<-1, 0>>

(* a variant of line 249 that subtracts the other way round *)
BilinearDegreeSwapped(zpk) == Len(zpk.zeros) - Len(zpk.poles)

(* line 249: int degree = zpk.poles.size() - zpk.zeros.size() *)
BilinearDegree(zpk) == Len(zpk.poles) - Len(zpk.zeros)

(* lines 256 and 260: (2.0 * fs + x) / (2.0 * fs - x) *)
BilinearMap(f, x) == [f |-> "bilinear", fs |-> f, x |-> x]

(* lines 254-267: the mapped zeros and poles, then degree zeros at -1; the  *)
(* loop of line 264 does not run for a degree below 1                       *)
BilinearRoots(zpk, f) ==
    [zeros |-> [k \in DOMAIN zpk.zeros |-> BilinearMap(f, zpk.zeros[k])]
               \o [k \in 1..BilinearDegree(zpk) |-> MinusOne],
     poles |-> [k \in DOMAIN zpk.poles |-> BilinearMap(f, zpk.poles[k])]]

(* a variant of line 270 that seeds the numerator with 1 *)
ProdZSeedReal == <<1, 0>>

(* line 270: std::complex<double> prod_z(1.0, 1.0) *)
ProdZSeed == <<1, 1>>

(* line 275: std::complex<double> prod_p(1.0, 1.0) *)
ProdPSeed == <<1, 1>>

(* lines 271-274 and 276-279: acc *= 2.0 * fs - x over the list *)
RECURSIVE ProdFrom(_, _, _)
ProdFrom(acc, f, s) ==
    IF s = <<>> THEN acc
    ELSE ProdFrom(CMul(acc, CSub(<<2 * f, 0>>, Head(s))), f, Tail(s))

(* std::real(a / b): a / b = a * conj(b) / |b|^2 *)
RealOfQuotient(a, b) == [num |-> CMul(a, Conj(b))[1], den |-> NormSq(b)]

(* lines 269-280 *)
BilinearGain(zpk, f) ==
    LET q == RealOfQuotient(ProdFrom(ProdZSeed, f, zpk.zeros),
                            ProdFrom(ProdPSeed, f, zpk.poles))
    IN  [num |-> zpk.gain * q.num, den |-> q.den]

BilinearTransform(zpk, f) ==
    [zeros |-> BilinearRoots(zpk, f).zeros,
     poles |-> BilinearRoots(zpk, f).poles,
     gain |-> BilinearGain(zpk, f)]

InitBilinear ==
    /\ pc = "bt_call"
    /\ analog \in [zeros : SeqsUpTo(BtVals, MaxBtLen),
                   poles : SeqsUpTo(BtVals, MaxBtLen),
                   gain : BtGains]
    /\ fs \in FsVals
    /\ digital = ZpkDefault
    /\ filter_type = "none"
    /\ filter_order = 0 /\ m = 0 /\ proto = ZpkDefault
    /\ IdlePair
    /\ IdleSos
    /\ IdleBiquad

(* a call bilinear_transform(analog, fs) *)
CallBilinear ==
    /\ pc = "bt_call"
    /\ digital' = BilinearTransform(analog, fs)
    /\ pc' = "bt_done"
    /\ UNCHANGED <<filter_order, m, proto, filter_type, analog, fs>>
    /\ UNCHANGED <<sosVars, pairVars, bqVars>>

NextBilinear == CallBilinear

SpecBilinear == InitBilinear /\ [][NextBilinear]_vars

(* the product of 2 * fs - x over a list, the empty product 1 *)
PlainProd(f, s) == ProdFrom(<<1, 0>>, f, s)

(* C11: bilinear_transform returns                                          *)
(* gain_out = gain_in * Re(prod(2*fs - zero) / prod(2*fs - pole)), the      *)
(* products over the input lists with empty product 1, and                  *)
(* gain_out = gain_in * Re(1 / prod(2*fs - pole)) when there are no zeros.  *)
(* Fractions are compared by cross-multiplication.                          *)
C11_GainFormula ==
    pc = "bt_done" =>
        LET pz == PlainProd(fs, analog.zeros)
            pp == PlainProd(fs, analog.poles)
            r  == RealOfQuotient(pz, pp)
        IN  /\ digital.gain.den # 0 /\ r.den # 0
            /\ digital.gain.num * r.den = analog.gain * r.num * digital.gain.den
            /\ analog.zeros = <<>> =>
                  digital.gain.num * NormSq(pp) = analog.gain * pp[1] * digital.gain.den

C11_Witness ==
    /\ pc = "bt_done"
    /\ Len(analog.zeros) = 2 /\ Len(analog.poles) = 2
    /\ \E k \in DOMAIN analog.zeros : ~IsReal(analog.zeros[k])
    /\ \E k \in DOMAIN analog.poles : ~IsReal(analog.poles[k])
    /\ ProdFrom(ProdZSeed, fs, analog.zeros) # PlainProd(fs, analog.zeros)
    /\ digital.gain.num # analog.gain * digital.gain.den
    /\ digital.gain.num # 0


--------------------------------------------------------------------------
(* The frequency transformations lp2lp, lp2hp, lp2bp and lp2bs, lines       *)
(* 42-233, and a design: analog_lowpass, one transformation,                *)
(* bilinear_transform, then the call of zpk2sos.  The prototype's poles lie *)
(* on the unit circle off the grid, so a transformed value is kept as the   *)
(* name of the transformation with its parameters over the value it is      *)
(* applied to, and so is a gain that is rescaled by a quotient of products. *)

FreqVals == {1, 2}

Term(name, par, x) == [f |-> name, par |-> par, x |-> x]

MapTerm(name, par, s) == [k \in DOMAIN s |-> Term(name, par, s[k])]

(* for (int i = 0; i < degree; i++) push_back(v) *)
Repeat(degree, v) == [k \in 1..degree |-> v]

(* lines 46, 80, 131 and 182: int degree *)
Degree(zpk) == Len(zpk.poles) - Len(zpk.zeros)

RECURSIVE Pow(_, _)
Pow(b, e) == IF e <= 0 THEN 1 ELSE b * Pow(b, e - 1)

(* lines 42-63 *)
Lp2lp(zpk, wc) ==
    [zeros |-> MapTerm("lp2lp", wc, zpk.zeros),
     poles |-> MapTerm("lp2lp", wc, zpk.poles),
     gain |-> zpk.gain * Pow(wc, Degree(zpk))]

(* lines 76-113 *)
Lp2hp(zpk, wc) ==
    [zeros |-> MapTerm("lp2hp", wc, zpk.zeros) \o Repeat(Degree(zpk), Zero),
     poles |-> MapTerm("lp2hp", wc, zpk.poles),
     gain |-> Term("lp2hp", wc, zpk.gain)]

(* lines 127-166 *)
Lp2bp(zpk, center, width) ==
    [zeros |-> MapTerm("lp2bp_plus", <<center, width>>, zpk.zeros)
               \o MapTerm("lp2bp_minus", <<center, width>>, zpk.zeros)
               \o Repeat(Degree(zpk), Zero),
     poles |-> MapTerm("lp2bp_plus", <<center, width>>, zpk.poles)
               \o MapTerm("lp2bp_minus", <<center, width>>, zpk.poles),
     gain |-> zpk.gain * Pow(width, Degree(zpk))]

(* lines 180-233 *)
Lp2bs(zpk, center, width) ==
    [zeros |-> MapTerm("lp2bs_plus", <<center, width>>, zpk.zeros)
               \o MapTerm("lp2bs_minus", <<center, width>>, zpk.zeros)
               \o Repeat(Degree(zpk), <<0, center>>)
               \o Repeat(Degree(zpk), <<0, -center>>),
     poles |-> MapTerm("lp2bs_plus", <<center, width>>, zpk.poles)
               \o MapTerm("lp2bs_minus", <<center, width>>, zpk.poles),
     gain |-> Term("lp2bs", <<center, width>>, zpk.gain)]

(* lp2lp(analog_lowpass(filter_order), wc) *)
DesignLp2lp ==
    /\ pc = "proto_done"
    /\ \E wc \in FreqVals : analog' = Lp2lp(proto, wc)
    /\ filter_type' = "lowpass"
    /\ pc' = "analog_done"
    /\ UNCHANGED <<filter_order, m, proto, fs, digital>>
    /\ UNCHANGED <<sosVars, pairVars, bqVars>>

(* lp2hp(analog_lowpass(filter_order), wc) *)
DesignLp2hp ==
    /\ pc = "proto_done"
    /\ \E wc \in FreqVals : analog' = Lp2hp(proto, wc)
    /\ filter_type' = "highpass"
    /\ pc' = "analog_done"
    /\ UNCHANGED <<filter_order, m, proto, fs, digital>>
    /\ UNCHANGED <<sosVars, pairVars, bqVars>>

(* lp2bp(analog_lowpass(filter_order), center, width) *)
DesignLp2bp ==
    /\ pc = "proto_done"
    /\ \E center \in FreqVals, width \in FreqVals :
          analog' = Lp2bp(proto, center, width)
    /\ filter_type' = "bandpass"
    /\ pc' = "analog_done"
    /\ UNCHANGED <<filter_order, m, proto, fs, digital>>
    /\ UNCHANGED <<sosVars, pairVars, bqVars>>

(* lp2bs(analog_lowpass(filter_order), center, width) *)
DesignLp2bs ==
    /\ pc = "proto_done"
    /\ \E center \in FreqVals, width \in FreqVals :
          analog' = Lp2bs(proto, center, width)
    /\ filter_type' = "bandstop"
    /\ pc' = "analog_done"
    /\ UNCHANGED <<filter_order, m, proto, fs, digital>>
    /\ UNCHANGED <<sosVars, pairVars, bqVars>>

(* bilinear_transform on the transformed record *)
DesignBilinear ==
    /\ pc = "analog_done"
    /\ \E f \in FsVals :
          /\ fs' = f
          /\ digital' = [zeros |-> BilinearRoots(analog, f).zeros,
                         poles |-> BilinearRoots(analog, f).poles,
                         gain |-> Term("bilinear", f, analog.gain)]
    /\ pc' = "digital_done"
    /\ UNCHANGED <<filter_order, m, proto, filter_type, analog>>
    /\ UNCHANGED <<sosVars, pairVars, bqVars>>

(* zpk2sos(digital): the record is passed by value *)
DesignZpk2sos ==
    /\ pc = "digital_done"
    /\ in_zeros' = digital.zeros /\ in_poles' = digital.poles
    /\ zpk_zeros' = digital.zeros /\ zpk_poles' = digital.poles
    /\ zpk_gain' = digital.gain
    /\ pc' = "pad"
    /\ UNCHANGED <<n_sections, poles, zeros, poles_real, poles_sos, zeros_sos,
                   sos, y, x_fed>>
    /\ UNCHANGED <<pairVars, protoVars, bqVars>>

InitDesign == InitProto \/ InitBilinear

NextDesign ==
    \/ ProtoEnter \/ ProtoPush \/ ProtoReturn
    \/ DesignLp2lp \/ DesignLp2hp \/ DesignLp2bp \/ DesignLp2bs
    \/ DesignBilinear \/ DesignZpk2sos \/ PadLoops
    \/ CallBilinear

SpecDesign == InitDesign /\ [][NextDesign]_vars

(* the count a design of order filter_order has *)
DesignedCount ==
    IF filter_type \in {"lowpass", "highpass"} THEN filter_order ELSE 2 * filter_order

Transformed == pc \in {"bt_done", "digital_done", "pad", "pad_odd", "overrun", "assert_fail"}

(* C12: analog_lowpass(N), one of lp2lp, lp2hp, lp2bp, lp2bs, then          *)
(* bilinear_transform give |zeros| = |poles|, N for lowpass and highpass    *)
(* and 2N for bandpass and bandstop; bilinear_transform appends             *)
(* max(0, |poles| - |zeros|) zeros equal to -1 after the mapped zeros and   *)
(* no pole; and the two padding loops of zpk2sos leave such a record as it  *)
(* is.                                                                      *)
C12_PipelineCounts ==
    /\ Transformed =>
          /\ Len(digital.poles) = Len(analog.poles)
          /\ Len(digital.zeros) =
                Len(analog.zeros) + Max(0, Len(analog.poles) - Len(analog.zeros))
          /\ \A k \in DOMAIN digital.zeros :
                IF k <= Len(analog.zeros)
                THEN digital.zeros[k] = BilinearMap(fs, analog.zeros[k])
                ELSE digital.zeros[k] = MinusOne
          /\ \A k \in DOMAIN digital.poles :
                digital.poles[k] = BilinearMap(fs, analog.poles[k])
    /\ Transformed /\ filter_type # "none" =>
          /\ Len(digital.zeros) = DesignedCount
          /\ Len(digital.poles) = DesignedCount
    /\ filter_type # "none" /\ pc \in {"pad_odd", "overrun", "assert_fail"} =>
          /\ pc = "pad_odd"
          /\ zpk_zeros = in_zeros /\ zpk_poles = in_poles
          /\ in_zeros = digital.zeros /\ in_poles = digital.poles

C12_Witness ==
    /\ pc = "pad_odd" /\ filter_type = "bandpass" /\ filter_order = 3
    /\ Len(analog.zeros) = 3 /\ Len(analog.poles) = 6
    /\ Len(zpk_zeros) = 6 /\ Len(zpk_poles) = 6
    /\ zpk_zeros[4] = MinusOne /\ zpk_zeros[6] = MinusOne

==========================================================================
